---- MODULE Spec2Model ----
(***************************************************************************)
(* Model of the pythia display front end: the Display scheduler            *)
(* (views/Display.jsx), the completion latch of the render engine          *)
(* (components/PythiaCircle.jsx) and the delivery of decoded events by the *)
(* stream client (hooks/useWebSocket).                                     *)
(*                                                                         *)
(* React is modelled at the granularity at which the code can observe it:  *)
(* a setState call leaves a pending update, a later render commits all     *)
(* pending updates at once and syncs the refs written in the component     *)
(* bodies, and the passive effects of that commit run in a later step.     *)
(* Timers, animation frames and socket messages are tasks of the same      *)
(* event loop and may run between any two of these steps.                  *)
(*                                                                         *)
(* Time is discrete: all delays of the display are multiples of Quantum    *)
(* milliseconds. React work, due timers and a due completion frame run     *)
(* before the clock moves on.                                              *)
(*                                                                         *)
(* The stream client keeps one entry per WebSocket it constructed and one  *)
(* per pending reconnect timer. Its reconnect timers are not clocked: a    *)
(* pending one may fire at any time, and it carries the delay it was armed *)
(* with. No code reads status or eventHistory back, so they hold the value *)
(* the next render commits; eventHistory refers to events by their arrival *)
(* number.                                                                 *)
(***************************************************************************)
EXTENDS Integers, Sequences, FiniteSets, TLC

VARIABLES
    pendingRef,         \* Display: pendingRef.current, the queue of events
    timerRef,           \* Display: timerRef.current, a timer handle or Null
    gapTimerRef,        \* Display: gapTimerRef.current, a timer handle or Null
    circleStateRef,     \* Display: circleStateRef.current
    circleState,        \* Display: committed state circleState
    currentEvent,       \* Display: committed state currentEvent
    queueSize,          \* Display: committed state queueSize
    displayAngle,       \* Display: committed state displayAngle
    lastEvent,          \* useWebSocket: committed state lastEvent
    upd,                \* setState calls not yet rendered
    fxEnqueue,          \* Display's enqueue effect is waiting to run
    fxCircle,           \* PythiaCircle's state-change effect is waiting to run
    timers,             \* pending setTimeout callbacks, in arming order
    stateRef,           \* PythiaCircle: stateRef.current
    stateT,             \* PythiaCircle: ms since startRef.current (saturating)
    returnNotifiedRef,  \* PythiaCircle: returnNotifiedRef.current
    nArrived,           \* number of frames received so far
    phaseT,             \* observer: ms the committed non-idle state has lasted
    nNotified,          \* observer: onReturnComplete calls in this phase
    pushed,             \* observer: ids pushed on the queue, in push order
    mounted,            \* Display and its PythiaCircle are mounted
    isMounted,          \* useWebSocket: isMounted.current
    wsRef,              \* useWebSocket: wsRef.current, a socket or Null
    sockets,            \* readyState of every WebSocket constructed so far
    reconnectTimer,     \* useWebSocket: reconnectTimer.current
    reconnects,         \* pending reconnect timers, in arming order
    delayRef,           \* useWebSocket: delayRef.current, in 1/Scale ms
    status,             \* useWebSocket: state status
    eventHistory,       \* useWebSocket: state eventHistory, events by id
    attempt,            \* observer: reconnect attempts since the last open
    nFailed,            \* number of connection failures so far
    nSetups,            \* number of times the hook's effect was set up again
    particlesRef,       \* PythiaCircle: particlesRef.current, as cohorts
    loopLast,           \* PythiaCircle: loop._last has been set
    frame,              \* observer: what the last animation frame did
    nBursts,            \* number of frames that asked for particles so far
    canvasWidth,        \* PythiaCircle: canvas.width
    vp,                 \* HUDOverlay: committed state vp
    vpUpd,              \* HUDOverlay: setVp call not yet rendered
    placement,          \* HUDOverlay: what its last render computed
    emissionRef,        \* PythiaCircle: angle of emissionRef.current
    lastEventRef,       \* HUDOverlay: lastEventRef.current
    shown               \* observer: ids of the events committed as active

vars == <<pendingRef, timerRef, gapTimerRef, circleStateRef, circleState,
          currentEvent, queueSize, displayAngle, lastEvent, upd, fxEnqueue,
          fxCircle, timers, stateRef, stateT, returnNotifiedRef, nArrived,
          phaseT, nNotified, pushed, mounted, isMounted, wsRef, sockets,
          reconnectTimer, reconnects, delayRef, status, eventHistory, attempt,
          nFailed, nSetups, particlesRef, loopLast, frame, nBursts,
          canvasWidth, vp, vpUpd, placement, emissionRef, lastEventRef,
          shown>>

schedVars == <<pendingRef, timerRef, gapTimerRef, circleStateRef, circleState,
               currentEvent, queueSize, displayAngle, upd, timers>>

(* What the stream client owns *)
clientVars == <<isMounted, wsRef, sockets, reconnectTimer, reconnects,
                delayRef, status, eventHistory, attempt, nFailed, nSetups>>

(* The particle system of the render engine *)
particleVars == <<particlesRef, loopLast, frame, nBursts>>

(* The canvas of the render engine, the viewport and the placement of the  *)
(* overlay                                                                 *)
geometryVars == <<canvasWidth, vp, vpUpd, placement>>

(* What the drawing code of PythiaCircle and HUDOverlay owns, and the      *)
(* record of what it has been given to show                                *)
viewVars == <<particleVars, geometryVars, emissionRef, lastEventRef, shown>>

(* What Display and PythiaCircle own, pending updates apart *)
displayVars == <<pendingRef, timerRef, gapTimerRef, circleStateRef,
                 circleState, currentEvent, queueSize, displayAngle,
                 lastEvent, fxEnqueue, fxCircle, timers, stateRef, stateT,
                 returnNotifiedRef, phaseT, nNotified, pushed, mounted>>

----------------------------------------------------------------------------
(* Bounds of the model *)

MaxEvents == 4          \* frames decoded in one run
NAngles == 2            \* distinct values Math.random() * 2 * PI may take
MaxRepeat == 1          \* gap timers pending when the callback is repeated
MaxFailures == 8        \* connections refused or lost in one run
MaxSetups == 1          \* times the effect of useWebSocket is set up again
MaxFrames == 102        \* frames received when the history is filled
MaxBursts == 2          \* animation frames that ask for particles

(* Program constants, in milliseconds *)

ANALYZE_MS == 2000      \* the literal 2_000 of advance's first setTimeout
GAP_MS == 2000
RETURN_DUR == 2500      \* 2.5 seconds
DUR_BASE_S == 8
DUR_SLOPE_S == 3
RECONNECT_DELAY_MS == 3000
RECONNECT_DELAY_MAX_MS == 30000
RECONNECT_BACKOFF_NUM == 3      \* RECONNECT_BACKOFF = 1.5 = 3 / 2
RECONNECT_BACKOFF_DEN == 2
HISTORY_MAX == 100              \* the literal 100 of slice(0, 100)

Scale == 4              \* reconnect delays are held in quarters of a ms

Null == 0
NullAngle == -1
NoEvent == [id |-> 0, criticality |-> 0]

Crits == {1, 6, 10}             \* criticalities of well-formed events
WildCrits == {0, 1, 11}         \* with criticalities outside 1..10
Angles == 0 .. (NAngles - 1)    \* angle k stands for k * 2 * PI / NAngles

Min(a, b) == IF a <= b THEN a ELSE b
Max(a, b) == IF a >= b THEN a ELSE b

RECURSIVE GCD(_, _)
GCD(a, b) == IF b = 0 THEN a ELSE GCD(b, a % b)

----------------------------------------------------------------------------
(* displayDuration: 8 s base + 3 s per criticality point, in ms *)

BandedDuration(criticality) ==
    IF criticality >= 7 THEN 30000
    ELSE IF criticality >= 4 THEN 20000 ELSE 10000

displayDuration(criticality) ==
    (DUR_BASE_S + (criticality - 1) * DUR_SLOPE_S) * 1000

(* The clock step: every delay of the program is a multiple of it *)
Quantum ==
    GCD(GCD(ANALYZE_MS, GAP_MS),
        GCD(RETURN_DUR, GCD(DUR_BASE_S * 1000, DUR_SLOPE_S * 1000)))

MaxPhase == displayDuration(11) + Quantum   \* where phaseT saturates

----------------------------------------------------------------------------
(* pendingRef.current.sort((a, b) => b.criticality - a.criticality):       *)
(* Array.prototype.sort is stable, so equal criticalities keep their order *)

RECURSIVE InsertDesc(_, _)
InsertDesc(x, s) ==
    IF s = <<>> THEN <<x>>
    ELSE IF Head(s).criticality >= x.criticality
         THEN <<Head(s)>> \o InsertDesc(x, Tail(s))
         ELSE <<x>> \o s

RECURSIVE SortDesc(_)
SortDesc(s) ==
    IF s = <<>> THEN <<>>
    ELSE InsertDesc(s[Len(s)], SortDesc(SubSeq(s, 1, Len(s) - 1)))

PushUnsorted(q, e) == Append(q, e)

Enqueue(q, e) == SortDesc(Append(q, e))

----------------------------------------------------------------------------
(* Pending React updates: each field holds <<>> or <<value>> *)

NoUpdates ==
    [circleState |-> <<>>, currentEvent |-> <<>>, queueSize |-> <<>>,
     displayAngle |-> <<>>, lastEvent |-> <<>>]

Latest(u, committed) == IF u = <<>> THEN committed ELSE u[1]

(* Timers *)

TimerIds(tms) == {tms[i].id : i \in 1 .. Len(tms)}

NewTimerId(tms, tref, gref) ==
    CHOOSE n \in 1 .. (Len(tms) + 3) :
        /\ n \notin TimerIds(tms) \cup {tref, gref}
        /\ \A m \in 1 .. (n - 1) : m \in TimerIds(tms) \cup {tref, gref}

SetTimeout(tms, id, kind, ms, ev) ==
    Append(tms, [id |-> id, kind |-> kind, left |-> ms, ev |-> ev])

ClearTimeout(tms, id) == SelectSeq(tms, LAMBDA t : t.id # id)

Due(tms) == {i \in 1 .. Len(tms) : tms[i].left = 0}

FirstDue(tms) == CHOOSE i \in Due(tms) : \A j \in Due(tms) : i <= j

RemoveAt(s, i) == SubSeq(s, 1, i - 1) \o SubSeq(s, i + 1, Len(s))

----------------------------------------------------------------------------
(* advance(): the values it leaves behind, given the queue q, the pending  *)
(* updates u, the timers tms and the handle in timerRef; angle is the      *)
(* value Math.random() * Math.PI * 2 takes                                 *)

advancePopLast(q, u, tms, tref, gref, angle) ==
    IF q = <<>>
    THEN [pendingRef |-> q,
          upd |-> [u EXCEPT !.queueSize = <<0>>,
                            !.circleState = <<"idle">>,
                            !.currentEvent = <<NoEvent>>,
                            !.displayAngle = <<NullAngle>>],
          timers |-> tms,
          timerRef |-> tref]
    ELSE LET next == q[Len(q)]
             id == NewTimerId(tms, tref, gref)
         IN [pendingRef |-> SubSeq(q, 1, Len(q) - 1),
             upd |-> [u EXCEPT !.queueSize = <<Len(q) - 1>>,
                               !.displayAngle = <<angle>>,
                               !.currentEvent = <<next>>,
                               !.circleState = <<"analyzing">>],
             timers |-> SetTimeout(tms, id, "analysis", ANALYZE_MS, next),
             timerRef |-> id]

advance(q, u, tms, tref, gref, angle) ==
    IF q = <<>>
    THEN [pendingRef |-> q,
          upd |-> [u EXCEPT !.queueSize = <<0>>,
                            !.circleState = <<"idle">>,
                            !.currentEvent = <<NoEvent>>,
                            !.displayAngle = <<NullAngle>>],
          timers |-> tms,
          timerRef |-> tref]
    ELSE LET next == Head(q)
             id == NewTimerId(tms, tref, gref)
         IN [pendingRef |-> Tail(q),
             upd |-> [u EXCEPT !.queueSize = <<Len(q) - 1>>,
                               !.displayAngle = <<angle>>,
                               !.currentEvent = <<next>>,
                               !.circleState = <<"analyzing">>],
             timers |-> SetTimeout(tms, id, "analysis", ANALYZE_MS, next),
             timerRef |-> id]

----------------------------------------------------------------------------
(* handleReturnComplete(): clears the phase timer, asks for idle and, if   *)
(* events are waiting, arms the gap timer                                  *)

handleReturnComplete(q, u, tms, tref, gref) ==
    LET tms1 == ClearTimeout(tms, tref)
        u1 == [u EXCEPT !.currentEvent = <<NoEvent>>,
                        !.displayAngle = <<NullAngle>>,
                        !.circleState = <<"idle">>]
        gid == NewTimerId(tms1, tref, gref)
    IN IF Len(q) > 0
       THEN [upd |-> u1,
             timers |-> SetTimeout(tms1, gid, "gap", GAP_MS, NoEvent),
             gapTimerRef |-> gid]
       ELSE [upd |-> u1, timers |-> tms1, gapTimerRef |-> gref]

(* The guard of the enqueue effect before it calls advance() *)

AlwaysAdvance(ref, gref) == TRUE

ShouldAdvance(ref, gref) == ref = "idle" /\ gref = Null

(* The guard of the render loop before it calls onReturnComplete *)

ReturnDue(s, t, notified) == s = "returning" /\ t >= RETURN_DUR /\ ~notified

----------------------------------------------------------------------------
(* The stream client (hooks/useWebSocket)                                  *)

(* A frame is what JSON.parse makes of it: an event, or a SyntaxError *)
JSONstringify(e) == [json |-> TRUE, value |-> e]

Malformed == [json |-> FALSE, value |-> NoEvent]

(* A parser that takes any frame for an event *)
ParseAnything(data) == [ok |-> TRUE, value |-> data.value]

JSONparse(data) == [ok |-> data.json, value |-> data.value]

(* seq.slice(-n) *)
KeepOldest(seq, n) == SubSeq(seq, Max(1, Len(seq) - n + 1), Len(seq))

(* seq.slice(0, n) *)
Slice(seq, n) == SubSeq(seq, 1, Min(n, Len(seq)))

(* The timer callback leaving the stored delay as it found it *)
BackoffLater(d) == d

(* delay * RECONNECT_BACKOFF alone *)
BackoffUncapped(d) == (d * RECONNECT_BACKOFF_NUM) \div RECONNECT_BACKOFF_DEN

(* Math.min(delay * RECONNECT_BACKOFF, RECONNECT_DELAY_MAX_MS), on delays  *)
(* held in 1/Scale ms; the division is exact for every delay below the cap *)
(* that the client can hold                                                *)
Backoff(d) ==
    Min((d * RECONNECT_BACKOFF_NUM) \div RECONNECT_BACKOFF_DEN,
        RECONNECT_DELAY_MAX_MS * Scale)

(* ws.close() on a socket of readyState st *)
close(st) == IF st \in {"connecting", "open"} THEN "closing" ELSE st

(* connect(): a new socket, unless the client is torn down *)
connect(mnt, socks, ref, st) ==
    IF ~mnt
    THEN [sockets |-> socks, wsRef |-> ref, status |-> st]
    ELSE [sockets |-> Append(socks, "connecting"),
          wsRef |-> Len(socks) + 1,
          status |-> "connecting"]

(* A close handler that arms nothing *)
forgetReconnect(rts, rref, d) == [reconnects |-> rts, reconnectTimer |-> rref]

(* scheduleReconnect(): arms a timer of the current delay *)
scheduleReconnect(rts, rref, d) ==
    LET id == NewTimerId(rts, rref, Null)
    IN [reconnects |-> Append(rts, [id |-> id, delay |-> d]),
        reconnectTimer |-> id]

----------------------------------------------------------------------------
(* The particle system of the render engine (components/PythiaCircle.jsx). *)
(* A life of 1.0 is LIFE_ONE units, decay rates are in hundredths per      *)
(* second and frame deltas in ms, so that a frame takes decay * dt units   *)
(* off a life. Rates are in thousandths of a particle per second and       *)
(* Math.random() in thousandths. The particles pushed by one spawn loop of *)
(* one frame are kept as one cohort; they share the decay drawn for them.  *)

MAX_PARTICLES == 600
LIFE_ONE == 100000              \* life: 1.0
DT_MAX == 50                    \* the cap 0.05 s of a frame delta

NoFrame == [before |-> 0, toSpawn |-> 0, toSpawnSec |-> 0, spawned |-> 0,
            spawnedSec |-> 0, dt |-> 0]

States == {"idle", "analyzing", "divergence", "returning"}
Deltas == {1000}                \* ms between two animation frames
Rnds == {0, 999}                \* Math.random(), in thousandths
PrimaryDecays == {38, 75}       \* 0.38 + Math.random() * 0.38
SecondaryDecays == {45, 89}     \* 0.45 + Math.random() * 0.45

(* What a frame reads from the refs: state, criticality (which nothing     *)
(* bounds), ms since startRef.current, queue depth and whether             *)
(* emissionRef.current is set                                              *)
Scene(s, crit, t, queue, em) ==
    [s |-> s, crit |-> crit, t |-> t, queue |-> queue, em |-> em]

Scenes ==
    {Scene("idle", 0, 0, 0, FALSE),
     Scene("divergence", 10, 0, 9, TRUE),
     Scene("divergence", 2000, 0, 9, TRUE),
     Scene("returning", 2000, 1500, 0, TRUE),
     Scene("returning", 10, 2500, 0, TRUE)}

(* dt, in ms: 0 on the first frame, when loop._last is not yet set *)
frameDt(last, delta) == IF last THEN Min(delta, DT_MAX) ELSE 0

emitRate(s, crit, t, em) ==
    IF s = "idle" THEN 1500
    ELSE IF ~em THEN 0
    ELSE IF s = "analyzing" THEN Min(t \div 3, 1000) * (10 + crit * 3)
    ELSE IF s = "divergence" THEN (16 + crit * 5) * 1000
    ELSE LET prog == Min((t * 1000) \div RETURN_DUR, 1000)
         IN (16 + crit * 5) * (((1000 - prog) * (1000 - prog)) \div 1000)

(* Math.floor(emitRate * dt + Math.random()) *)
toSpawn(rate, dt, rnd) ==
    IF rate > 0 THEN (rate * dt + rnd * 1000) \div 1000000 ELSE 0

secRate(queue) == Min(queue * 4, 28)

(* Math.floor(secRate * dt + Math.random() * 0.5) *)
toSpawnSec(queue, dt, rnd) ==
    (secRate(queue) * 1000 * dt + rnd * 500) \div 1000000

RECURSIVE Population(_)
Population(ps) ==
    IF ps = <<>> THEN 0 ELSE Head(ps).n + Population(Tail(ps))

(* A spawn loop without the test of the population *)
spawnUncapped(ps, n, decay) ==
    IF n > 0
    THEN Append(ps, [life |-> LIFE_ONE, decay |-> decay, n |-> n])
    ELSE ps

(* for (i = 0; i < n && particlesRef.current.length < MAX_PARTICLES; i++)  *)
(* push a particle of life 1.0                                             *)
spawn(ps, n, decay) ==
    LET k == Min(n, MAX_PARTICLES - Population(ps))
    IN IF k > 0
       THEN Append(ps, [life |-> LIFE_ONE, decay |-> decay, n |-> k])
       ELSE ps

(* The update loop: every life decays, the particles left with a life of   *)
(* 0 or less are not kept                                                  *)
update(ps, dt) ==
    SelectSeq([i \in 1 .. Len(ps) |->
                 [ps[i] EXCEPT !.life = @ - ps[i].decay * dt]],
              LAMBDA p : p.life > 0)

----------------------------------------------------------------------------
(* Geometry of the canvas (components/PythiaCircle.jsx) and of the overlay *)
(* (components/HUDOverlay.jsx). Viewport sizes are whole CSS pixels,       *)
(* lengths on the screen are in thousandths of a pixel, angles are in      *)
(* degrees, multiples of 15, and Math.cos and Math.sin are in thousandths. *)

BLOCK_W == 260
BLOCK_H == 100
PAD == 54
EDGE == 12                      \* the literal 12 of the clamp
FALLBACK_DEG == 195             \* (195 * Math.PI) / 180

Px == 1000                      \* one pixel, in thousandths

Widths == {260, 320, 1024, 1366, 1920}      \* window.innerWidth
Heights == {100, 600, 768, 1080}            \* window.innerHeight
Viewports == [w : Widths, h : Heights]
Degrees == {15 * k : k \in 0 .. 23}

Abs(x) == IF x >= 0 THEN x ELSE -x

(* Math.sin in the first quadrant *)
SinQ(d) ==
    CASE d = 0 -> 0
      [] d = 15 -> 259
      [] d = 30 -> 500
      [] d = 45 -> 707
      [] d = 60 -> 866
      [] d = 75 -> 966
      [] d = 90 -> 1000

Sin(d) ==
    LET a == d % 360
    IN IF a <= 90 THEN SinQ(a)
       ELSE IF a <= 180 THEN SinQ(180 - a)
       ELSE IF a <= 270 THEN -SinQ(a - 180)
       ELSE -SinQ(360 - a)

Cos(d) == Sin(d + 90)

(* The product of a cosine or sine and a length *)
Times(c, len) == (c * len) \div 1000

(* canvas.width = size: the width of a canvas is an unsigned long, so the  *)
(* assignment keeps the integer part of size                               *)
handleResize(w, h) == (Min(w, h) * 6) \div 10

(* The radius of the ring on the canvas, W * 0.38 *)
baseR(W) == W * 380

(* Math.min(vp.w, vp.h) * 0.6 * 0.38 *)
circleR(v) == Min(v.w, v.h) * 228

(* The body of HUDOverlay from the circle geometry to the clamp *)
Place(v, anchorAngle) ==
    LET effectiveAngle ==
            IF anchorAngle = NullAngle THEN FALLBACK_DEG ELSE anchorAngle
        radX == Cos(effectiveAngle)
        radY == Sin(effectiveAngle)
        cx == v.w * (Px \div 2)
        cy == v.h * (Px \div 2)
        attachX == cx + Times(radX, circleR(v) + PAD * Px)
        attachY == cy + Times(radY, circleR(v) + PAD * Px)
        horizontal == Abs(radX) >= Abs(radY)
        left == IF horizontal
                THEN IF radX >= 0 THEN attachX ELSE attachX - BLOCK_W * Px
                ELSE attachX - BLOCK_W * (Px \div 2)
        top == IF horizontal
               THEN attachY - BLOCK_H * (Px \div 2)
               ELSE IF radY >= 0 THEN attachY ELSE attachY - BLOCK_H * Px
    IN [anchorAngle |-> anchorAngle,
        anchorX |-> cx + Times(radX, circleR(v)),
        anchorY |-> cy + Times(radY, circleR(v)),
        blockLeft |-> Max(EDGE * Px,
                          Min((v.w - BLOCK_W - EDGE) * Px, left)),
        blockTop |-> Max(EDGE * Px,
                         Min((v.h - BLOCK_H - EDGE) * Px, top))]

(* The window the page is opened in *)
FirstViewport == [w |-> 1920, h |-> 1080]

----------------------------------------------------------------------------
(* What the consumers of the scheduler's state keep for themselves *)

(* The angle k of the scheduler, in degrees *)
Deg(angle) ==
    IF angle = NullAngle THEN NullAngle ELSE angle * (360 \div NAngles)

(* HUDOverlay forgetting the event once it is no longer active *)
dropLastEvent(event, ref) == event

(* if (event) lastEventRef.current = event *)
keepLastEvent(event, ref) == IF event # NoEvent THEN event ELSE ref

(* makeEmission(criticality, angle).angle: angle ?? Math.random() * 2 PI *)
makeEmission(angle, own) == IF angle = NullAngle THEN own ELSE angle

(* The state-change effect of PythiaCircle on emissionRef.current *)
stateChange(state, emissionAngle, ref, own) ==
    CASE state = "analyzing" -> makeEmission(emissionAngle, own)
      [] state = "divergence" ->
           IF ref = NullAngle THEN makeEmission(emissionAngle, own) ELSE ref
      [] state = "idle" -> NullAngle
      [] OTHER -> ref

----------------------------------------------------------------------------
(* The state once the components are mounted and the effect of             *)
(* useWebSocket has run connect() for the first time                       *)
Init ==
    /\ pendingRef = <<>>
    /\ timerRef = Null
    /\ gapTimerRef = Null
    /\ circleStateRef = "idle"
    /\ circleState = "idle"
    /\ currentEvent = NoEvent
    /\ queueSize = 0
    /\ displayAngle = NullAngle
    /\ lastEvent = NoEvent
    /\ upd = NoUpdates
    /\ fxEnqueue = FALSE
    /\ fxCircle = FALSE
    /\ timers = <<>>
    /\ stateRef = "idle"
    /\ stateT = 0
    /\ returnNotifiedRef = FALSE
    /\ nArrived = 0
    /\ phaseT = 0
    /\ nNotified = 0
    /\ pushed = <<>>
    /\ mounted = TRUE
    /\ isMounted = TRUE
    /\ wsRef = 1
    /\ sockets = <<"connecting">>
    /\ reconnectTimer = Null
    /\ reconnects = <<>>
    /\ delayRef = RECONNECT_DELAY_MS * Scale
    /\ status = "connecting"
    /\ eventHistory = <<>>
    /\ attempt = 0
    /\ nFailed = 0
    /\ nSetups = 0
    /\ particlesRef = <<>>
    /\ loopLast = FALSE
    /\ frame = NoFrame
    /\ nBursts = 0
    /\ canvasWidth = handleResize(FirstViewport.w, FirstViewport.h)
    /\ vp = FirstViewport
    /\ vpUpd = <<>>
    /\ placement = Place(FirstViewport, NullAngle)
    /\ emissionRef = NullAngle
    /\ lastEventRef = NoEvent
    /\ shown = {}

(* ws.onopen without the reset of the delay *)
OnOpenNoReset(s) ==
    /\ sockets[s] = "connecting"
    /\ sockets' = [sockets EXCEPT ![s] = "open"]
    /\ attempt' = 0
    /\ status' = IF isMounted THEN "connected" ELSE status
    /\ UNCHANGED viewVars
    /\ UNCHANGED <<displayVars, upd, nArrived, isMounted, wsRef, delayRef,
                   reconnectTimer, reconnects, eventHistory, nFailed, nSetups>>

(* ws.onopen of socket s *)
OnOpen(s) ==
    /\ sockets[s] = "connecting"
    /\ sockets' = [sockets EXCEPT ![s] = "open"]
    /\ attempt' = 0
    /\ IF isMounted
       THEN /\ status' = "connected"
            /\ delayRef' = RECONNECT_DELAY_MS * Scale
       ELSE UNCHANGED <<status, delayRef>>
    /\ UNCHANGED viewVars
    /\ UNCHANGED <<displayVars, upd, nArrived, isMounted, wsRef,
                   reconnectTimer, reconnects, eventHistory, nFailed, nSetups>>

(* ws.onmessage of socket s with the frame data *)
OnMessage(s, data) ==
    /\ sockets[s] = "open"
    /\ nArrived' = nArrived + 1
    /\ LET r == JSONparse(data)
       IN IF isMounted /\ r.ok
          THEN /\ upd' = [upd EXCEPT !.lastEvent = <<r.value>>]
               /\ eventHistory' = Slice(<<r.value.id>> \o eventHistory,
                                        HISTORY_MAX)
          ELSE UNCHANGED <<upd, eventHistory>>
    /\ UNCHANGED viewVars
    /\ UNCHANGED <<displayVars, isMounted, wsRef, sockets, reconnectTimer,
                   reconnects, delayRef, status, attempt, nFailed, nSetups>>

(* A frame that carries the event number nArrived + 1 of criticality c *)
WsMessage(c) ==
    /\ nArrived < MaxEvents
    /\ \E s \in 1 .. Len(sockets) :
         OnMessage(s, JSONstringify([id |-> nArrived + 1, criticality |-> c]))

(* ws.onclose of socket s *)
OnClose(s) ==
    /\ sockets' = [sockets EXCEPT ![s] = "closed"]
    /\ IF isMounted
       THEN LET r == scheduleReconnect(reconnects, reconnectTimer, delayRef)
            IN /\ status' = "disconnected"
               /\ reconnects' = r.reconnects
               /\ reconnectTimer' = r.reconnectTimer
       ELSE UNCHANGED <<status, reconnects, reconnectTimer>>
    /\ UNCHANGED viewVars
    /\ UNCHANGED <<displayVars, upd, nArrived, isMounted, wsRef, delayRef,
                   eventHistory, attempt, nSetups>>

(* The close event that follows ws.close() *)
CloseEvent ==
    \E s \in 1 .. Len(sockets) :
        /\ sockets[s] = "closing"
        /\ OnClose(s)
        /\ UNCHANGED nFailed

(* The connection is refused, or lost, without a transport error *)
ConnectionLost ==
    \E s \in 1 .. Len(sockets) :
        /\ sockets[s] \in {"connecting", "open"}
        /\ nFailed < MaxFailures
        /\ nFailed' = nFailed + 1
        /\ OnClose(s)

(* ws.onerror of socket s: ws.close() *)
ErrorEvent ==
    \E s \in 1 .. Len(sockets) :
        /\ sockets[s] \in {"connecting", "open"}
        /\ nFailed < MaxFailures
        /\ nFailed' = nFailed + 1
        /\ sockets' = [sockets EXCEPT ![s] = close(sockets[s])]
        /\ UNCHANGED viewVars
        /\ UNCHANGED <<displayVars, upd, nArrived, isMounted, wsRef,
                       reconnectTimer, reconnects, delayRef, status,
                       eventHistory, attempt, nSetups>>

(* The callback of scheduleReconnect's setTimeout *)
ReconnectTimer ==
    \E i \in 1 .. Len(reconnects) :
        LET d == Backoff(delayRef)
            r == connect(isMounted, sockets, wsRef, status)
        IN /\ reconnects' = RemoveAt(reconnects, i)
           /\ delayRef' = d
           /\ sockets' = r.sockets
           /\ wsRef' = r.wsRef
           /\ status' = r.status
           /\ attempt' = attempt + 1
           /\ UNCHANGED viewVars
           /\ UNCHANGED <<displayVars, upd, nArrived, isMounted,
                          reconnectTimer, eventHistory, nFailed, nSetups>>

(* The cleanup of useWebSocket's effect *)
Teardown ==
    /\ isMounted
    /\ isMounted' = FALSE
    /\ reconnects' = ClearTimeout(reconnects, reconnectTimer)
    /\ sockets' = IF wsRef = Null THEN sockets
                  ELSE [sockets EXCEPT ![wsRef] = close(@)]
    /\ UNCHANGED viewVars
    /\ UNCHANGED <<displayVars, upd, nArrived, wsRef, reconnectTimer,
                   delayRef, status, eventHistory, attempt, nFailed, nSetups>>

(* useWebSocket's effect is set up again on the same refs *)
Setup ==
    /\ ~isMounted
    /\ nSetups < MaxSetups
    /\ nSetups' = nSetups + 1
    /\ isMounted' = TRUE
    /\ LET r == connect(TRUE, sockets, wsRef, status)
       IN /\ sockets' = r.sockets
          /\ wsRef' = r.wsRef
          /\ status' = r.status
    /\ UNCHANGED viewVars
    /\ UNCHANGED <<displayVars, upd, nArrived, reconnectTimer, reconnects,
                   delayRef, eventHistory, attempt, nFailed>>

(* A render pass: commits every pending update, runs the component bodies  *)
(* (which sync circleStateRef and stateRef; HUDOverlay's keeps the event   *)
(* and places the block) and leaves the effects whose dependencies changed *)
(* to run later. React runs the effects of one commit before it renders    *)
(* again.                                                                  *)
Render ==
    /\ mounted
    /\ upd # NoUpdates
    /\ ~fxEnqueue /\ ~fxCircle
    /\ circleState' = Latest(upd.circleState, circleState)
    /\ currentEvent' = Latest(upd.currentEvent, currentEvent)
    /\ queueSize' = Latest(upd.queueSize, queueSize)
    /\ displayAngle' = Latest(upd.displayAngle, displayAngle)
    /\ lastEvent' = Latest(upd.lastEvent, lastEvent)
    /\ upd' = NoUpdates
    /\ circleStateRef' = circleState'
    /\ stateRef' = circleState'
    /\ fxEnqueue' = (lastEvent' # lastEvent)
    /\ fxCircle' = \/ circleState' # circleState
                   \/ currentEvent'.criticality # currentEvent.criticality
                   \/ displayAngle' # displayAngle
    /\ phaseT' = IF circleState' # circleState THEN 0 ELSE phaseT
    /\ UNCHANGED <<pendingRef, timerRef, gapTimerRef, timers, stateT,
                   returnNotifiedRef, nArrived>>
    /\ nNotified' = IF circleState' # circleState THEN 0 ELSE nNotified
    /\ UNCHANGED <<pushed, mounted, clientVars>>
    /\ lastEventRef' = keepLastEvent(currentEvent', lastEventRef)
    /\ vp' = Latest(vpUpd, vp)
    /\ vpUpd' = <<>>
    /\ placement' = Place(vp', Deg(displayAngle'))
    /\ shown' = IF currentEvent' # NoEvent
                THEN shown \cup {currentEvent'.id} ELSE shown
    /\ UNCHANGED <<particleVars, canvasWidth, emissionRef>>

(* The passive effects of the last commit, children first: PythiaCircle's  *)
(* state-change effect, then Display's enqueue effect                      *)
FlushEffects ==
    /\ mounted
    /\ fxEnqueue \/ fxCircle
    /\ fxEnqueue' = FALSE
    /\ fxCircle' = FALSE
    /\ stateT' = IF fxCircle THEN 0 ELSE stateT
    /\ returnNotifiedRef' = IF fxCircle THEN FALSE ELSE returnNotifiedRef
    /\ IF fxEnqueue /\ lastEvent # NoEvent
       THEN LET q1 == Enqueue(pendingRef, lastEvent)
                u1 == [upd EXCEPT !.queueSize = <<Len(q1)>>]
            IN IF ShouldAdvance(circleStateRef, gapTimerRef)
               THEN \E angle \in Angles :
                      LET r == advance(q1, u1, timers, timerRef,
                                       gapTimerRef, angle)
                      IN /\ pendingRef' = r.pendingRef
                         /\ upd' = r.upd
                         /\ timers' = r.timers
                         /\ timerRef' = r.timerRef
               ELSE /\ pendingRef' = q1
                    /\ upd' = u1
                    /\ UNCHANGED <<timers, timerRef>>
       ELSE UNCHANGED <<pendingRef, upd, timers, timerRef>>
    /\ UNCHANGED <<gapTimerRef, circleStateRef, circleState, currentEvent,
                   queueSize, displayAngle, lastEvent, stateRef, nArrived,
                   phaseT>>
    /\ pushed' = IF fxEnqueue /\ lastEvent # NoEvent
                 THEN Append(pushed, lastEvent.id) ELSE pushed
    /\ UNCHANGED <<nNotified, mounted, clientVars>>
    /\ \E own \in Angles :
         emissionRef' = IF fxCircle
                        THEN stateChange(circleState, displayAngle,
                                         emissionRef, own)
                        ELSE emissionRef
    /\ UNCHANGED <<particleVars, geometryVars, lastEventRef, shown>>

(* The callback of advance's first setTimeout *)
AnalysisTimer ==
    /\ Due(timers) # {}
    /\ LET i == FirstDue(timers)
           t == timers[i]
           rest == RemoveAt(timers, i)
           id == NewTimerId(rest, timerRef, gapTimerRef)
       IN /\ t.kind = "analysis"
          /\ upd' = [upd EXCEPT !.circleState = <<"divergence">>]
          /\ timers' = SetTimeout(rest, id, "divergence",
                                  displayDuration(t.ev.criticality), t.ev)
          /\ timerRef' = id
    /\ UNCHANGED <<pendingRef, gapTimerRef, circleStateRef, circleState,
                   currentEvent, queueSize, displayAngle, lastEvent,
                   fxEnqueue, fxCircle, stateRef, stateT, returnNotifiedRef,
                   nArrived, phaseT>>
    /\ UNCHANGED <<nNotified, pushed, mounted, clientVars>>
    /\ UNCHANGED viewVars

(* The callback of the nested setTimeout *)
DivergenceTimer ==
    /\ Due(timers) # {}
    /\ LET i == FirstDue(timers)
       IN /\ timers[i].kind = "divergence"
          /\ upd' = [upd EXCEPT !.circleState = <<"returning">>]
          /\ timers' = RemoveAt(timers, i)
    /\ UNCHANGED <<pendingRef, timerRef, gapTimerRef, circleStateRef,
                   circleState, currentEvent, queueSize, displayAngle,
                   lastEvent, fxEnqueue, fxCircle, stateRef, stateT,
                   returnNotifiedRef, nArrived, phaseT>>
    /\ UNCHANGED <<nNotified, pushed, mounted, clientVars>>
    /\ UNCHANGED viewVars

(* The callback of handleReturnComplete's setTimeout *)
GapTimer ==
    /\ Due(timers) # {}
    /\ LET i == FirstDue(timers)
       IN /\ timers[i].kind = "gap"
          /\ gapTimerRef' = Null
          /\ \E angle \in Angles :
               LET r == advance(pendingRef, upd, RemoveAt(timers, i),
                                timerRef, Null, angle)
               IN /\ pendingRef' = r.pendingRef
                  /\ upd' = r.upd
                  /\ timers' = r.timers
                  /\ timerRef' = r.timerRef
    /\ UNCHANGED <<circleStateRef, circleState, currentEvent, queueSize,
                   displayAngle, lastEvent, fxEnqueue, fxCircle, stateRef,
                   stateT, returnNotifiedRef, nArrived, phaseT>>
    /\ UNCHANGED <<nNotified, pushed, mounted, clientVars>>
    /\ UNCHANGED viewVars

(* An animation frame in which the loop notifies the scheduler *)
FrameNotify ==
    /\ mounted
    /\ ReturnDue(stateRef, stateT, returnNotifiedRef)
    /\ returnNotifiedRef' = TRUE
    /\ LET r == handleReturnComplete(pendingRef, upd, timers, timerRef,
                                     gapTimerRef)
       IN /\ upd' = r.upd
          /\ timers' = r.timers
          /\ gapTimerRef' = r.gapTimerRef
    /\ UNCHANGED <<pendingRef, timerRef, circleStateRef, circleState,
                   currentEvent, queueSize, displayAngle, lastEvent,
                   fxEnqueue, fxCircle, stateRef, stateT, nArrived, phaseT>>
    /\ nNotified' = nNotified + 1
    /\ UNCHANGED <<pushed, mounted, clientVars>>
    /\ UNCHANGED viewVars

(* Quantum ms pass. Due timers run first and, while Display is mounted,    *)
(* so do React work and a due notification.                                *)
Tick ==
    /\ mounted => /\ upd = NoUpdates
                  /\ ~fxEnqueue /\ ~fxCircle
                  /\ ~ReturnDue(stateRef, stateT, returnNotifiedRef)
    /\ Due(timers) = {}
    /\ \/ timers # <<>>
       \/ mounted /\ stateT < RETURN_DUR
       \/ mounted /\ circleState # "idle" /\ phaseT < MaxPhase
    /\ timers' = [i \in 1 .. Len(timers) |->
                    [timers[i] EXCEPT !.left = Max(0, @ - Quantum)]]
    /\ stateT' = Min(stateT + Quantum, RETURN_DUR)
    /\ phaseT' = IF circleState = "idle" THEN phaseT
                 ELSE Min(phaseT + Quantum, MaxPhase)
    /\ UNCHANGED <<pendingRef, timerRef, gapTimerRef, circleStateRef,
                   circleState, currentEvent, queueSize, displayAngle,
                   lastEvent, upd, fxEnqueue, fxCircle, stateRef,
                   returnNotifiedRef, nArrived>>
    /\ UNCHANGED <<nNotified, pushed, mounted, clientVars>>
    /\ UNCHANGED viewVars

Arrival == \E c \in Crits : WsMessage(c)

OpenEvent == \E s \in 1 .. Len(sockets) : OnOpen(s)

Step ==
    \/ OpenEvent
    \/ Render
    \/ FlushEffects
    \/ AnalysisTimer
    \/ DivergenceTimer
    \/ GapTimer
    \/ FrameNotify
    \/ Tick

Next == Arrival \/ Step

Spec == Init /\ [][Next]_vars

(* The same program when every commit runs its passive effects before any  *)
(* other task, as React does for updates it renders synchronously          *)
NextSync == IF fxEnqueue \/ fxCircle THEN FlushEffects ELSE Next

SpecSync == Init /\ [][NextSync]_vars

(* The feed also delivers events whose criticality is outside 1..10 *)
WildArrival == \E c \in WildCrits : WsMessage(c)

NextWild == WildArrival \/ Step

SpecWild == Init /\ [][NextWild]_vars

(* The completion callback is invoked again within one RETURNING phase:    *)
(* handleReturnComplete has run, and React has not rendered the idle state *)
(* it asked for                                                            *)
CountKind(tms, kind) == Cardinality({i \in 1 .. Len(tms) : tms[i].kind = kind})

RepeatReturnComplete ==
    /\ circleState = "returning"
    /\ upd.circleState = <<"idle">>
    /\ CountKind(timers, "gap") <= MaxRepeat
    /\ LET r == handleReturnComplete(pendingRef, upd, timers, timerRef,
                                     gapTimerRef)
       IN /\ upd' = r.upd
          /\ timers' = r.timers
          /\ gapTimerRef' = r.gapTimerRef
    /\ UNCHANGED <<pendingRef, timerRef, circleStateRef, circleState,
                   currentEvent, queueSize, displayAngle, lastEvent,
                   fxEnqueue, fxCircle, stateRef, stateT, returnNotifiedRef,
                   nArrived, phaseT>>
    /\ UNCHANGED <<nNotified, pushed, mounted, clientVars>>
    /\ UNCHANGED viewVars

NextRepeat == Next \/ RepeatReturnComplete

SpecRepeat == Init /\ [][NextRepeat]_vars

(* The stream client alone: its connection comes and goes and frames,     *)
(* malformed ones too, arrive on an open socket. Nothing renders here, so  *)
(* the latest event is the last setLastEvent still pending in upd.         *)
MalformedArrival ==
    /\ nArrived < MaxEvents
    /\ \E s \in 1 .. Len(sockets) : OnMessage(s, Malformed)

NextStream ==
    \/ OpenEvent
    \/ Arrival
    \/ MalformedArrival
    \/ ErrorEvent
    \/ CloseEvent
    \/ ConnectionLost
    \/ ReconnectTimer

SpecStream == Init /\ [][NextStream]_vars

(* Timers fire and a closed socket reports its close *)
SpecStreamFair ==
    SpecStream /\ WF_vars(ReconnectTimer) /\ WF_vars(CloseEvent)

(* The effect of useWebSocket is cleaned up and set up again on the same   *)
(* refs                                                                    *)
NextLifecycle ==
    \/ OpenEvent
    \/ ErrorEvent
    \/ CloseEvent
    \/ ConnectionLost
    \/ ReconnectTimer
    \/ Teardown
    \/ Setup

SpecLifecycle == Init /\ [][NextLifecycle]_vars

(* Display is unmounted, and PythiaCircle with it: the cleanups at         *)
(* Display.jsx 35-40 and PythiaCircle.jsx 238-243. React runs the effects  *)
(* of the last commit before it commits the unmount. Updates requested     *)
(* later stay in upd and are never rendered.                               *)
DisplayUnmount ==
    /\ mounted
    /\ ~fxEnqueue /\ ~fxCircle
    /\ mounted' = FALSE
    /\ timers' = ClearTimeout(ClearTimeout(timers, timerRef), gapTimerRef)
    /\ UNCHANGED <<pendingRef, timerRef, gapTimerRef, circleStateRef,
                   circleState, currentEvent, queueSize, displayAngle,
                   lastEvent, upd, fxEnqueue, fxCircle, stateRef, stateT,
                   returnNotifiedRef, nArrived, phaseT, nNotified, pushed,
                   clientVars>>
    /\ UNCHANGED viewVars

(* Teardown of each part. Either the feed is healthy and Display shows     *)
(* events until it is unmounted, after which only its timers are followed, *)
(* or no frame arrives and the stream client goes through failures,        *)
(* teardown and re-setup.                                                  *)
(* A timer callback of Display runs after Display was unmounted *)
DanglingTimer == ~mounted /\ (AnalysisTimer \/ DivergenceTimer \/ GapTimer)

Healthy == mounted /\ isMounted /\ nFailed = 0 /\ nSetups = 0

NextTeardown ==
    \/ Healthy /\ Arrival
    \/ Healthy /\ OpenEvent
    \/ Healthy /\ Render
    \/ Healthy /\ FlushEffects
    \/ Healthy /\ AnalysisTimer
    \/ Healthy /\ DivergenceTimer
    \/ Healthy /\ GapTimer
    \/ Healthy /\ FrameNotify
    \/ Healthy /\ Tick
    \/ Healthy /\ DisplayUnmount
    \/ DanglingTimer
    \/ ~mounted /\ Tick
    \/ nArrived = 0 /\ OpenEvent
    \/ nArrived = 0 /\ ErrorEvent
    \/ nArrived = 0 /\ CloseEvent
    \/ nArrived = 0 /\ ConnectionLost
    \/ nArrived = 0 /\ ReconnectTimer
    \/ nArrived = 0 /\ Teardown
    \/ nArrived = 0 /\ Setup

SpecTeardown == Init /\ [][NextTeardown]_vars

(* The display with malformed frames among the events *)
NextFrames == Next \/ MalformedArrival

SpecFrames == Init /\ [][NextFrames]_vars

(* A long feed on a connection that stays up *)
FrameArrival ==
    /\ nArrived < MaxFrames
    /\ \E c \in Crits, s \in 1 .. Len(sockets) :
         OnMessage(s, JSONstringify([id |-> nArrived + 1, criticality |-> c]))

NextHistory == OpenEvent \/ FrameArrival

SpecHistory == Init /\ [][NextHistory]_vars

----------------------------------------------------------------------------
(* One animation frame of the render loop, as far as the particles go:     *)
(* primary spawn, secondary spawn, then update. The frames that ask for    *)
(* particles are the first ones of a run; the frames after them find an    *)
(* emission rate of 0.                                                     *)
loop ==
    \E sc \in Scenes, delta \in Deltas, rnd \in Rnds :
        LET dt == frameDt(loopLast, delta)
            sec == sc.queue > 0 /\ sc.em /\ sc.s # "idle"
            n1 == toSpawn(emitRate(sc.s, sc.crit, sc.t, sc.em), dt, rnd)
        IN \E rndSec \in IF sec THEN Rnds ELSE {0} :
             LET n2 == IF sec THEN toSpawnSec(sc.queue, dt, rndSec) ELSE 0
             IN /\ mounted
                /\ n1 + n2 > 0 =>
                     /\ nBursts < MaxBursts
                     /\ nBursts > 0 => frame.toSpawn + frame.toSpawnSec > 0
                /\ \E decay \in IF n1 > 0 THEN PrimaryDecays ELSE {0},
                      decaySec \in IF n2 > 0 THEN SecondaryDecays ELSE {0} :
                     LET before == Population(particlesRef)
                         p1 == spawn(particlesRef, n1, decay)
                         p2 == spawn(p1, n2, decaySec)
                     IN /\ particlesRef' = update(p2, dt)
                        /\ frame' =
                             [before |-> before,
                              toSpawn |-> n1, toSpawnSec |-> n2,
                              spawned |-> Population(p1) - before,
                              spawnedSec |-> Population(p2) - Population(p1),
                              dt |-> dt]
                /\ nBursts' = IF n1 + n2 > 0 THEN nBursts + 1 ELSE nBursts
                /\ loopLast' = TRUE
                /\ UNCHANGED <<geometryVars, emissionRef, lastEventRef, shown>>
                /\ UNCHANGED <<displayVars, clientVars, upd, nArrived>>

(* The render loop alone, whatever the refs hold at each frame *)
SpecParticles == Init /\ [][loop]_vars

----------------------------------------------------------------------------
(* A resize event of the window: handleResize of PythiaCircle sizes the    *)
(* canvas, onResize of HUDOverlay asks for a render with the new viewport  *)
WindowResize ==
    \E v \in Viewports :
        /\ mounted
        /\ vpUpd = <<>>
        /\ v # vp
        /\ canvasWidth' = handleResize(v.w, v.h)
        /\ vpUpd' = <<v>>
        /\ UNCHANGED <<vp, placement, particleVars, emissionRef,
                       lastEventRef, shown>>
        /\ UNCHANGED <<displayVars, clientVars, upd, nArrived>>

(* A render of HUDOverlay, with the anchorAngle its parent passes *)
HUDRender ==
    \E anchorAngle \in Degrees \cup {NullAngle} :
        /\ mounted
        /\ vp' = Latest(vpUpd, vp)
        /\ vpUpd' = <<>>
        /\ placement' = Place(vp', anchorAngle)
        /\ UNCHANGED <<canvasWidth, particleVars, emissionRef,
                       lastEventRef, shown>>
        /\ UNCHANGED <<displayVars, clientVars, upd, nArrived>>

NextGeometry == WindowResize \/ HUDRender

(* The canvas and the overlay alone, under resizes of the window *)
SpecGeometry == Init /\ [][NextGeometry]_vars

----------------------------------------------------------------------------
(* The display when the browser keeps running what is ready: React renders *)
(* and runs its effects, due timers fire, animation frames come and time   *)
(* passes. Nothing obliges the feed to send another event.                 *)
Fairness ==
    /\ WF_vars(Render)
    /\ WF_vars(FlushEffects)
    /\ WF_vars(AnalysisTimer)
    /\ WF_vars(DivergenceTimer)
    /\ WF_vars(GapTimer)
    /\ WF_vars(FrameNotify)
    /\ WF_vars(Tick)

SpecFair == Spec /\ Fairness

----------------------------------------------------------------------------
(* The display on a feed whose events have neighbouring criticalities:     *)
(* their display durations differ by 3 s, about the length of a return     *)
(* and a gap                                                               *)
NearCrits == {1, 2}

NearArrival == \E c \in NearCrits : WsMessage(c)

NextNear == NearArrival \/ Step

SpecNear == Init /\ [][NextNear]_vars

----------------------------------------------------------------------------
(* Vocabulary of the properties *)

Range(seq) == {seq[i] : i \in 1 .. Len(seq)}

(* The enqueue effect runs in this step *)
EnqueueStep == fxEnqueue /\ ~fxEnqueue'

(* q is criticality-descending, equal criticalities in arrival order *)
SortedStable(q) ==
    \A i, j \in 1 .. Len(q) :
        i < j => /\ q[i].criticality >= q[j].criticality
                 /\ q[i].criticality = q[j].criticality => q[i].id < q[j].id

(* q1 is q with e inserted behind every event of criticality >= e's and    *)
(* ahead of every event of lower criticality                               *)
InsertedByCriticality(q, e, q1) ==
    \E k \in 1 .. Len(q1) :
        /\ q1[k] = e
        /\ RemoveAt(q1, k) = q
        /\ \A j \in 1 .. (k - 1) : q1[j].criticality >= e.criticality
        /\ \A j \in (k + 1) .. Len(q1) : q1[j].criticality < e.criticality

(* e has the highest criticality of the events in S and, among those of    *)
(* that criticality, arrived first                                         *)
IsFirstMax(e, S) ==
    /\ e \in S
    /\ \A x \in S : \/ x.criticality < e.criticality
                    \/ x.criticality = e.criticality /\ x.id >= e.id

CycleTransitions ==
    {<<"idle", "analyzing">>, <<"analyzing", "divergence">>,
     <<"divergence", "returning">>, <<"returning", "idle">>}

----------------------------------------------------------------------------
(* C1: after every enqueue (push, then re-sort), for any sequence of       *)
(* arrivals and pops, the pending queue is ordered by criticality          *)
(* descending and events of equal criticality are in arrival order.        *)
C1_QueueSorted == SortedStable(pendingRef)

(* A queue of three in which a later arrival was moved ahead of an earlier *)
(* one and two events tie                                                  *)
C1_Witness ==
    /\ Len(pendingRef) = 3
    /\ \E i, j \in 1 .. 3 : i < j /\ pendingRef[i].id > pendingRef[j].id
    /\ \E i, j \in 1 .. 3 :
         i < j /\ pendingRef[i].criticality = pendingRef[j].criticality

(* C2: under every interleaving of arrivals, phase timers, the gap timer   *)
(* and the completion signal, DisplayState changes only IDLE->ANALYZING,   *)
(* ANALYZING->DIVERGENCE, DIVERGENCE->RETURNING and RETURNING->IDLE.       *)
C2_OnlyCycleTransitions ==
    [][circleState' # circleState =>
         <<circleState, circleState'>> \in CycleTransitions]_vars

(* C3: while an event is active in ANALYZING, DIVERGENCE or RETURNING, the *)
(* arrival of another event of any criticality only inserts it in the      *)
(* queue ahead of the lower-criticality events: the active event, the      *)
(* DisplayState, the EmissionAngle and the phase timer are unchanged, and  *)
(* an event is made active only together with an entry into ANALYZING.     *)
C3_ArrivalDoesNotPreempt ==
    [][/\ (EnqueueStep /\ circleState # "idle") =>
            /\ InsertedByCriticality(pendingRef, lastEvent, pendingRef')
            /\ UNCHANGED <<currentEvent, circleState, displayAngle, timers,
                           timerRef, gapTimerRef>>
            /\ upd'.currentEvent = upd.currentEvent
            /\ upd'.circleState = upd.circleState
            /\ upd'.displayAngle = upd.displayAngle
       /\ (upd'.currentEvent # upd.currentEvent
             /\ upd'.currentEvent \notin {<<>>, <<NoEvent>>}) =>
            upd'.circleState = <<"analyzing">>]_vars

(* DIVERGENCE is showing a lower event while an event of higher            *)
(* criticality, just arrived, sits in the queue ahead of an earlier one    *)
C3_Witness ==
    /\ circleState = "divergence"
    /\ ~fxEnqueue
    /\ Len(pendingRef) = 2
    /\ pendingRef[1] = lastEvent
    /\ pendingRef[1].id > pendingRef[2].id
    /\ pendingRef[1].criticality > currentEvent.criticality
    /\ currentEvent # NoEvent

(* C4: when an event is enqueued while DisplayState is IDLE and no gap     *)
(* timer is pending, the scheduler enters ANALYZING in that same step; the *)
(* event made active has the maximum criticality of the queue at that      *)
(* moment (the earliest arrived among ties) and is removed from the queue. *)
C4_IdleEnqueueStartsCycle ==
    [][(EnqueueStep /\ circleState = "idle"
          /\ CountKind(timers, "gap") = 0) =>
         /\ upd'.circleState = <<"analyzing">>
         /\ Len(upd'.currentEvent) = 1
         /\ IsFirstMax(upd'.currentEvent[1],
                       Range(pendingRef) \cup {lastEvent})
         /\ Range(pendingRef') =
              (Range(pendingRef) \cup {lastEvent}) \ {upd'.currentEvent[1]}
         /\ Len(pendingRef') = Len(pendingRef)
         /\ upd'.queueSize = <<Len(pendingRef')>>]_vars

(* An arrival in IDLE found an earlier event still queued and that earlier *)
(* event, not the arrival, was made active                                 *)
C4_Witness ==
    /\ circleState = "idle"
    /\ ~fxEnqueue
    /\ upd.circleState = <<"analyzing">>
    /\ CountKind(timers, "gap") = 0
    /\ CountKind(timers, "analysis") = 1
    /\ Len(timers) = 1
    /\ Len(upd.currentEvent) = 1
    /\ upd.currentEvent[1].id < lastEvent.id
    /\ lastEvent \in Range(pendingRef)

(* C5: from IDLE with an empty queue, when one event of criticality 6      *)
(* arrives and no other: ANALYZING at once with a non-null EmissionAngle,  *)
(* DIVERGENCE after 2 s, RETURNING after a further duration(6) = 23 s,     *)
(* IDLE after the 2.5 s return window with EmissionAngle null and no       *)
(* active event, and IDLE from then on.                                    *)
OnlyOneCrit6 ==
    /\ nArrived = 1 /\ nArrived' = 1
    /\ lastEvent.id = 1 => lastEvent.criticality = 6
    /\ upd.lastEvent # <<>> => upd.lastEvent[1].criticality = 6

CycleOver ==
    /\ circleState = "idle" /\ lastEvent.id = 1
    /\ ~fxEnqueue /\ upd = NoUpdates

C5_SingleEventScenario ==
    [][OnlyOneCrit6 =>
         /\ EnqueueStep =>
              /\ upd'.circleState = <<"analyzing">>
              /\ Len(upd'.displayAngle) = 1
              /\ upd'.displayAngle[1] \in Angles
         /\ circleState' # circleState =>
              \/ /\ circleState = "idle" /\ circleState' = "analyzing"
                 /\ displayAngle' # NullAngle
                 /\ currentEvent'.criticality = 6
              \/ /\ circleState = "analyzing" /\ circleState' = "divergence"
                 /\ phaseT = 2000
              \/ /\ circleState = "divergence" /\ circleState' = "returning"
                 /\ phaseT = 23000
              \/ /\ circleState = "returning" /\ circleState' = "idle"
                 /\ phaseT = 2500
                 /\ displayAngle' = NullAngle
                 /\ currentEvent' = NoEvent
         /\ CycleOver =>
              /\ circleState' = "idle"
              /\ displayAngle' = NullAngle
              /\ currentEvent' = NoEvent]_vars

(* C6: in every reachable state EmissionAngle is non-null if and only if   *)
(* DisplayState is not IDLE.                                               *)
C6_AngleIffNotIdle == (displayAngle # NullAngle) <=> (circleState # "idle")

(* C7: EmissionAngle is assigned exactly once per cycle, at the entry into *)
(* ANALYZING, with a value in [0, 2*pi); the later transitions of the      *)
(* cycle and arrivals leave it unchanged; it is cleared to null at the     *)
(* RETURNING->IDLE transition.                                             *)
C7_AngleOncePerCycle ==
    [][/\ displayAngle' # displayAngle =>
            \/ /\ circleState = "idle" /\ circleState' = "analyzing"
               /\ displayAngle = NullAngle /\ displayAngle' \in Angles
            \/ /\ circleState = "returning" /\ circleState' = "idle"
               /\ displayAngle' = NullAngle
       /\ (circleState = "idle" /\ circleState' = "analyzing") =>
            displayAngle' \in Angles
       /\ (circleState = "returning" /\ circleState' = "idle") =>
            displayAngle' = NullAngle]_vars

(* C8: for every criticality c in 1..10 the DIVERGENCE hold is             *)
(* duration(c) = 8 s + 3 s * (c - 1), so 8 s, 20 s and 35 s for 1, 5 and   *)
(* 10; the DIVERGENCE->RETURNING timer is armed, when the analysis timer   *)
(* of an event fires, with the duration of that event, which is the event  *)
(* advance() made active when it armed the analysis timer.                 *)
ArmsAnalysis ==
    /\ CountKind(timers', "analysis") > CountKind(timers, "analysis")

ArmsDivergence ==
    /\ CountKind(timers', "divergence") > CountKind(timers, "divergence")

C8_LinearDuration ==
    /\ \A c \in 1 .. 10 : displayDuration(c) = 8000 + 3000 * (c - 1)
    /\ displayDuration(1) = 8000
    /\ displayDuration(5) = 20000
    /\ displayDuration(10) = 35000
    /\ [][/\ ArmsAnalysis =>
               LET t == timers'[Len(timers')]
               IN /\ t.kind = "analysis"
                  /\ t.left = 2000
                  /\ upd'.currentEvent = <<t.ev>>
          /\ ArmsDivergence =>
               LET t == timers'[Len(timers')]
                   fired == timers[FirstDue(timers)]
               IN /\ t.kind = "divergence"
                  /\ fired.kind = "analysis"
                  /\ t.ev = fired.ev
                  /\ t.left = 8000 + 3000 * (t.ev.criticality - 1)]_vars

(* The hold of an event of criticality 10 has been armed, and a second     *)
(* later shows the event in DIVERGENCE                                     *)
C8_Witness ==
    /\ circleState = "divergence"
    /\ currentEvent.criticality = 10
    /\ \E i \in 1 .. Len(timers) :
         /\ timers[i].kind = "divergence"
         /\ timers[i].ev = currentEvent
         /\ timers[i].left = 34000

(* C9: an event whose criticality is outside [1,10] is never rejected and  *)
(* its criticality is clamped into [1,10] before duration() uses it: its   *)
(* DIVERGENCE hold is 8 s below 1 and 35 s above 10.                       *)
C9_ClampedDuration ==
    [][/\ EnqueueStep =>
            \/ lastEvent \in Range(pendingRef')
            \/ upd'.currentEvent = <<lastEvent>>
       /\ ArmsDivergence =>
            LET t == timers'[Len(timers')]
            IN /\ t.ev.criticality < 1 => t.left = 8000
               /\ t.ev.criticality > 10 => t.left = 35000]_vars

(* C10: a repeated invocation of the completion callback within one        *)
(* RETURNING phase is a no-op: it changes no scheduler state, arms no      *)
(* additional gap timer and causes no additional event to be popped.       *)
C10_RepeatIsNoOp ==
    [][RepeatReturnComplete =>
         UNCHANGED schedVars]_vars

----------------------------------------------------------------------------
(* The render engine leaves the RETURNING phase in this step *)
LeavesReturning == circleState = "returning" /\ circleState' # "returning"

(* PythiaCircle's state-change effect runs in this step *)
StateEffectStep == fxCircle /\ ~fxCircle'

(* Decoded event id waits for the enqueue effect: its setLastEvent is      *)
(* pending, or it is committed and the effect has yet to run               *)
AwaitsEnqueue(id) ==
    \/ upd.lastEvent # <<>> /\ upd.lastEvent[1].id = id
    \/ fxEnqueue /\ lastEvent.id = id

TimesPushed(id) == Cardinality({i \in 1 .. Len(pushed) : pushed[i] = id})

(* C11: the render engine invokes the completion callback exactly once per *)
(* RETURNING phase: however many frames run while the state is RETURNING   *)
(* the callback is called once, never a second time and never not at all,  *)
(* and the state-change effect resets the latch so that the next RETURNING *)
(* phase fires it again.                                                   *)
C11_OncePerReturningPhase ==
    [][/\ nNotified' <= 1
       /\ LeavesReturning => nNotified = 1
       /\ StateEffectStep => ~returnNotifiedRef']_vars

(* C12: under every interleaving of frames with the propagation of the     *)
(* state, the completion callback fires only when the RETURNING phase has  *)
(* lasted RETURN_DUR (2.5 s).                                              *)
C12_NotBeforeReturnDur ==
    [][FrameNotify => (circleState = "returning" /\ phaseT >= RETURN_DUR)]_vars

(* C13: every decoded frame is inserted into the pending queue exactly     *)
(* once: at any time a decoded event has been pushed once, or has not been *)
(* pushed and still waits for the enqueue effect, also when two frames are *)
(* decoded before the effect has run for the first.                        *)
C13_EnqueuedExactlyOnce ==
    \A id \in Range(eventHistory) :
        \/ TimesPushed(id) = 1
        \/ TimesPushed(id) = 0 /\ AwaitsEnqueue(id)

----------------------------------------------------------------------------
(* Vocabulary of the stream client's properties *)

RECURSIVE Pow(_, _)
Pow(b, n) == IF n = 0 THEN 1 ELSE b * Pow(b, n - 1)

Ms(n) == n * Scale

(* A socket opens, a socket closes, a reconnect timer fires in this step *)
OpenStep ==
    \E s \in 1 .. Len(sockets) : sockets[s] = "connecting" /\ sockets'[s] = "open"

CloseStep ==
    \E s \in 1 .. Len(sockets) : sockets[s] # "closed" /\ sockets'[s] = "closed"

ReconnectFired == attempt' = attempt + 1

(* The delays of the timers that fire in this step *)
WaitedDelays ==
    {reconnects[i].delay : i \in {j \in 1 .. Len(reconnects) :
                                      reconnects' = RemoveAt(reconnects, j)}}

(* d, in 1/Scale ms, is min(3000 * 1.5^(k-1), 30000) ms, compared exactly *)
IsNthDelay(d, k) ==
    d * Pow(RECONNECT_BACKOFF_DEN, k - 1) =
        Min(Ms(RECONNECT_DELAY_MS) * Pow(RECONNECT_BACKOFF_NUM, k - 1),
            Ms(RECONNECT_DELAY_MAX_MS) * Pow(RECONNECT_BACKOFF_DEN, k - 1))

(* 3000, 4500, 6750, 10125 and 15187.5 ms *)
FirstDelays == <<Ms(3000), Ms(4500), Ms(6750), Ms(10125), Ms(30375) \div 2>>

LiveSockets == {s \in 1 .. Len(sockets) : sockets[s] \in {"connecting", "open"}}

(* C14: with no successful open in between, the delay waited before the    *)
(* k-th consecutive reconnection attempt is min(3000 * 1.5^(k-1), 30000)   *)
(* ms: 3000, 4500, 6750, 10125, 15187.5, ... and 30000 once the cap is     *)
(* reached; no waited delay is below 3000 or above 30000 ms.               *)
C14_BackoffSequence ==
    [][ReconnectFired =>
         \A d \in WaitedDelays :
             /\ IsNthDelay(d, attempt')
             /\ attempt' <= Len(FirstDelays) => d = FirstDelays[attempt']
             /\ d >= Ms(RECONNECT_DELAY_MS)
             /\ d <= Ms(RECONNECT_DELAY_MAX_MS)]_vars

(* The eighth consecutive attempt is under way: the waits were 3000 ms up  *)
(* to 22781.25 ms and then twice the cap                                   *)
C14_Witness ==
    /\ attempt = 8
    /\ status = "connecting"
    /\ delayRef = Ms(RECONNECT_DELAY_MAX_MS)

(* C15: on every successful open the connection state becomes CONNECTED    *)
(* and the backoff delay is reset to 3000 ms, so the first reconnection    *)
(* delay waited after a connection that had opened is 3000 ms whatever     *)
(* failures came before.                                                   *)
C15_OpenResetsBackoff ==
    [][/\ OpenStep => /\ status' = "connected"
                      /\ delayRef' = Ms(RECONNECT_DELAY_MS)
       /\ (ReconnectFired /\ attempt = 0) =>
              WaitedDelays = {Ms(RECONNECT_DELAY_MS)}]_vars

(* Two attempts in a row, then a third connection that opened and was     *)
(* lost, and the attempt that follows it                                   *)
C15_Witness ==
    /\ Len(sockets) = 4
    /\ nFailed = 3
    /\ attempt = 1
    /\ status = "connecting"

C17_MalformedFrameDropped ==
    [][MalformedArrival =>
         UNCHANGED <<displayVars, upd, isMounted, wsRef, sockets,
                     reconnectTimer, reconnects, delayRef, status,
                     eventHistory, attempt>>]_vars

(* The last frame was well formed, was decoded and was enqueued, and a     *)
(* frame before it was malformed                                           *)
C17_Witness ==
    /\ eventHistory # <<>>
    /\ eventHistory[1] = nArrived
    /\ Len(eventHistory) < nArrived
    /\ nArrived \in Range(pushed)

(* C18: whenever the connection closes or a transport error occurs while   *)
(* the client is mounted, the connection state becomes DISCONNECTED, a     *)
(* reconnect timer of the current backoff delay is armed and a new         *)
(* connection attempt (CONNECTING) is eventually started, after any number *)
(* of consecutive failures.                                                *)
C18_AlwaysReconnects ==
    /\ [][(CloseStep /\ isMounted) =>
            /\ status' = "disconnected"
            /\ Len(reconnects') = Len(reconnects) + 1
            /\ reconnects'[Len(reconnects')].delay = delayRef]_vars
    /\ \A s \in 1 .. (MaxFailures + 1) :
         (s <= Len(sockets) /\ sockets[s] = "closing")
             ~> (status = "disconnected")
    /\ (status = "disconnected") ~> (status = "connecting")

(* MaxFailures failures in a row, each followed by a new attempt, and the  *)
(* client is connecting again                                              *)
C18_Witness ==
    /\ nFailed = MaxFailures
    /\ attempt = MaxFailures
    /\ status = "connecting"
    /\ LiveSockets = {Len(sockets)}

(* C19: for the lifetime of the stream client at most one feed socket is   *)
(* open or connecting and at most one reconnect timer is pending, across   *)
(* any sequence of opens, errors, closes and teardown followed by          *)
(* re-setup.                                                               *)
C19_OneSocketOneTimer ==
    /\ Cardinality(LiveSockets) <= 1
    /\ Len(reconnects) <= 1

(* C20: after teardown no dangling callback acts. Once Display is          *)
(* unmounted no analysis, divergence or gap timer fires, no frame is       *)
(* processed and the completion callback is not invoked; once the stream   *)
(* client is torn down no reconnect timer fires, no connection is opened   *)
(* and no message, open or close handler changes its state.                *)
C20_NothingActsAfterTeardown ==
    [][/\ ~DanglingTimer
       /\ ~mounted => ~(FrameNotify \/ Render \/ FlushEffects)
       /\ (~isMounted /\ ~isMounted') =>
            /\ ~ReconnectTimer
            /\ Len(sockets') = Len(sockets)
            /\ UNCHANGED <<status, delayRef, eventHistory, upd, reconnects,
                           reconnectTimer, wsRef>>]_vars

----------------------------------------------------------------------------
(* C21: after every frame the particle population is at most               *)
(* MAX_PARTICLES: a spawn, primary or secondary, asked for when the        *)
(* population has reached the cap is skipped, and no particle is left with *)
(* a life of 0 or less by the frame that took its life there.              *)
C21_PopulationCapped ==
    /\ Population(particlesRef) <= MAX_PARTICLES
    /\ frame.before >= MAX_PARTICLES => frame.spawned = 0
    /\ frame.before + frame.spawned >= MAX_PARTICLES => frame.spawnedSec = 0
    /\ \A i \in 1 .. Len(particlesRef) : particlesRef[i].life > 0

(* The last frame filled the population up to the cap with a part of the   *)
(* primary particles it asked for and skipped the secondary ones           *)
C21_Witness ==
    /\ frame.before < MAX_PARTICLES
    /\ frame.spawned > 0
    /\ frame.spawned < frame.toSpawn
    /\ frame.toSpawnSec > 0
    /\ frame.spawnedSec = 0
    /\ Population(particlesRef) = MAX_PARTICLES

----------------------------------------------------------------------------
(* C22: for every viewport and every EmissionAngle a the overlay anchor is *)
(* at the offset (cos(a) * R, sin(a) * R) from the centre of the viewport, *)
(* R = min(w, h) * 0.6 * 0.38, and R equals the ring radius of the engine, *)
(* 0.38 * canvas.width, so that the anchor is the centre of the arc.       *)
C22_AnchorOnArc ==
    vpUpd = <<>> /\ placement.anchorAngle # NullAngle =>
        LET a == placement.anchorAngle
            R == Min(vp.w, vp.h) * 228
        IN /\ placement.anchorX - vp.w * 500 = Times(Cos(a), R)
           /\ placement.anchorY - vp.h * 500 = Times(Sin(a), R)
           /\ R = baseR(canvasWidth)

----------------------------------------------------------------------------
(* C23: for every viewport and every anchor angle the text block           *)
(* [blockLeft, blockLeft + 260] x [blockTop, blockTop + 100] lies, after   *)
(* the clamp, within [0, w] x [0, h].                                      *)
C23_BlockInsideViewport ==
    /\ 0 <= placement.blockLeft
    /\ placement.blockLeft + BLOCK_W * Px <= vp.w * Px
    /\ 0 <= placement.blockTop
    /\ placement.blockTop + BLOCK_H * Px <= vp.h * Px

----------------------------------------------------------------------------
(* The event whose content the overlay renders: event || lastEventRef *)
displayEvent == IF currentEvent # NoEvent THEN currentEvent ELSE lastEventRef

(* The cycle has fully returned to IDLE with an empty queue *)
FullyIdle ==
    /\ circleState = "idle"
    /\ currentEvent = NoEvent
    /\ pendingRef = <<>>
    /\ timers = <<>>
    /\ upd = NoUpdates
    /\ ~fxEnqueue /\ ~fxCircle

(* C24: the overlay keeps the payload of the most recently active event    *)
(* while the active event is null during a fade-out, and discards it only  *)
(* when a new event becomes active or when the cycle has fully returned to *)
(* IDLE with an empty queue, after which no earlier payload is retained.   *)
C24_DiscardedWhenIdle ==
    [][/\ currentEvent' # NoEvent => lastEventRef' = currentEvent'
       /\ currentEvent' = NoEvent /\ ~FullyIdle' =>
            lastEventRef' = lastEventRef
       /\ FullyIdle' => lastEventRef' = NoEvent]_vars

(* C24, amended: the overlay keeps the payload of the most recently active *)
(* event for as long as no event is active, through the fade-out and in    *)
(* IDLE with an empty queue as well, and replaces it only when a new event *)
(* becomes active.                                                         *)
C24_KeptUntilReplaced ==
    [][/\ currentEvent' # NoEvent => lastEventRef' = currentEvent'
       /\ currentEvent' = NoEvent => lastEventRef' = lastEventRef]_vars

(* The cycle of event 1 is over, nothing is left to show, and the overlay  *)
(* still renders event 1                                                   *)
C24_Witness ==
    /\ FullyIdle
    /\ nArrived = 1
    /\ displayEvent.id = 1

----------------------------------------------------------------------------
(* The completion callback runs in this step *)
NotifyStep == nNotified' = nNotified + 1

(* A gap timer fires in this step *)
GapFires == CountKind(timers', "gap") < CountKind(timers, "gap")

(* The step leaves the cycle pending in upd as it is *)
StartsNoCycle ==
    /\ UNCHANGED <<timers, timerRef, gapTimerRef>>
    /\ upd'.circleState = upd.circleState
    /\ upd'.currentEvent = upd.currentEvent
    /\ upd'.displayAngle = upd.displayAngle

(* C25: when the completion signal arrives in RETURNING with a non-empty   *)
(* queue the scheduler goes to IDLE with a gap of 2 s pending; events that *)
(* arrive during the gap are only enqueued and start no cycle; when the    *)
(* gap timer fires exactly one cycle starts, with the highest-criticality  *)
(* event of the queue at that moment and a newly generated EmissionAngle.  *)
C25_GapThenOneCycle ==
    [][/\ (NotifyStep /\ circleState = "returning" /\ pendingRef # <<>>) =>
            /\ upd'.circleState = <<"idle">>
            /\ CountKind(timers', "gap") = 1
            /\ LET t == timers'[Len(timers')]
               IN t.kind = "gap" /\ t.left = 2000 /\ gapTimerRef' = t.id
       /\ (EnqueueStep /\ CountKind(timers, "gap") > 0) =>
            /\ InsertedByCriticality(pendingRef, lastEvent, pendingRef')
            /\ StartsNoCycle
       /\ GapFires =>
            /\ pendingRef # <<>>
            /\ IsFirstMax(Head(pendingRef), Range(pendingRef))
            /\ pendingRef' = Tail(pendingRef)
            /\ upd'.currentEvent = <<Head(pendingRef)>>
            /\ upd'.circleState = <<"analyzing">>
            /\ upd'.displayAngle # <<>>
            /\ upd'.displayAngle[1] \in Angles
            /\ CountKind(timers', "analysis") = 1
            /\ CountKind(timers', "divergence") = 0
       /\ ArmsAnalysis => upd.circleState # <<"analyzing">>]_vars

----------------------------------------------------------------------------
(* Phase timers pending: analysis and divergence timers *)
PhaseTimers == CountKind(timers, "analysis") + CountKind(timers, "divergence")

(* The callback of a divergence timer runs in this step *)
DivergenceFires ==
    /\ CountKind(timers', "divergence") < CountKind(timers, "divergence")
    /\ ~NotifyStep
    /\ mounted'

(* The timer that fires was armed by the cycle on display, which is in     *)
(* the given state                                                         *)
FiredByCurrentCycle(state) ==
    LET fired == timers[FirstDue(timers)]
    IN /\ circleState = state
       /\ upd.circleState = <<>>
       /\ fired.ev = currentEvent
       /\ fired.id = timerRef

(* C26: a phase timer armed in one cycle never changes the display state   *)
(* of a later cycle or of IDLE: ANALYZING -> DIVERGENCE is always caused   *)
(* by the analysis timer armed when the current cycle entered ANALYZING,   *)
(* DIVERGENCE -> RETURNING by the timer armed when it entered DIVERGENCE,  *)
(* and at most one phase timer is pending at any time.                     *)
C26_NoStalePhaseTimer ==
    [][/\ PhaseTimers' <= 1
       /\ ArmsDivergence => FiredByCurrentCycle("analyzing")
       /\ DivergenceFires => FiredByCurrentCycle("divergence")]_vars

----------------------------------------------------------------------------
(* C27: the backoff multiplier is applied only after a reconnection        *)
(* attempt has itself failed: when a reconnection attempt is started the   *)
(* stored delay still equals the delay just waited.                        *)
C27_MultipliedAfterFailure ==
    [][ReconnectFired =>
         /\ delayRef' = delayRef
         /\ \A d \in WaitedDelays : delayRef' = d]_vars

(* C27, amended: the multiplier is applied when a reconnection attempt is  *)
(* started: the callback that starts the k-th attempt in a row finds the   *)
(* delay it has waited in the store and leaves there the delay of attempt  *)
(* k + 1, min(1.5 * waited, 30000) ms. Nothing else but a successful open, *)
(* which resets it, changes the stored delay; a failure does not.          *)
C27_MultipliedAtAttempt ==
    [][/\ ReconnectFired =>
            /\ IsNthDelay(delayRef', attempt' + 1)
            /\ \A d \in WaitedDelays : delayRef = d
       /\ delayRef' # delayRef => ReconnectFired \/ OpenStep]_vars

(* The first attempt after a failure is under way and the store already    *)
(* holds 4500 ms                                                           *)
C27_Witness ==
    /\ attempt = 1
    /\ nFailed = 1
    /\ status = "connecting"
    /\ delayRef = Ms(4500)

----------------------------------------------------------------------------
(* C28: throughout ANALYZING, DIVERGENCE and RETURNING, once the            *)
(* state-change effect of the last commit has run, the scheduler holds an   *)
(* EmissionAngle, the render engine emits around that angle and the overlay *)
(* anchors to it: neither uses an angle of its own making or one kept from  *)
(* an earlier cycle                                                         *)
InCycle == circleState \in {"analyzing", "divergence", "returning"}

EngineAngle == emissionRef

OverlayAngle == placement.anchorAngle

C28_OneEmissionAngle ==
    mounted /\ InCycle /\ ~fxCircle =>
        /\ displayAngle # NullAngle
        /\ EngineAngle = displayAngle
        /\ OverlayAngle = Deg(displayAngle)

----------------------------------------------------------------------------
(* C29: no event is stranded. When no callback is pending (no phase or gap *)
(* timer, no effect of the last commit still to run, no state update still *)
(* to render) and the display is IDLE, the pending queue is empty          *)
NoCallbackPending ==
    /\ timers = <<>>
    /\ ~fxEnqueue /\ ~fxCircle
    /\ upd = NoUpdates

C29_NoEventStranded ==
    mounted /\ NoCallbackPending /\ circleState = "idle" => pendingRef = <<>>

----------------------------------------------------------------------------
(* C30: when timers and animation frames keep firing, every event pushed   *)
(* on the queue becomes the active event, none becomes active a second     *)
(* time, and the scheduler finally rests in IDLE with an empty queue, no   *)
(* active event and a null EmissionAngle                                   *)
Activation ==
    currentEvent' # currentEvent /\ currentEvent' # NoEvent

AtRest ==
    /\ circleState = "idle"
    /\ pendingRef = <<>>
    /\ currentEvent = NoEvent
    /\ displayAngle = NullAngle

C30_EveryEventShownOnce ==
    /\ [][Activation => currentEvent'.id \notin shown]_vars
    /\ <>[](AtRest /\ Range(pushed) \subseteq shown)

----------------------------------------------------------------------------
(* C31: whenever a gap timer is pending, the DisplayState the scheduler    *)
(* has set is IDLE, no event is active and the pending queue is not empty; *)
(* so a gap timer that fires pops an event and enters ANALYZING, and never *)
(* takes the empty-queue branch of advance                                 *)
GapPending == \E i \in 1 .. Len(timers) : timers[i].kind = "gap"

SetState == Latest(upd.circleState, circleState)

SetEvent == Latest(upd.currentEvent, currentEvent)

C31_GapOnlyWhileWaiting ==
    GapPending => /\ SetState = "idle"
                  /\ SetEvent = NoEvent
                  /\ pendingRef # <<>>

====
